---- MODULE Spec2Model ----
(***************************************************************************)
(* Model of the playlist generation and mood analysis of moody-backend:    *)
(*   src/src/services/playlistService.ts  (PlaylistService)                *)
(*   src/src/services/spotifyService.ts   (SpotifyService, the wrappers    *)
(*                                         around the catalog's HTTP API)  *)
(*   src/src/routes/spotify.ts            (POST /api/playlist/generate)    *)
(*   src/src/services/moodService.ts      (MoodService)                    *)
(*                                                                         *)
(* Numbers.  The code computes in IEEE doubles; the model computes in      *)
(* exact rationals with fixed denominators:                                *)
(*   - energy, valence and danceability are in tenths (0.6 is 6);          *)
(*   - tempo is in BPM;                                                    *)
(*   - a confidence is in tenths (1.0 is 10, the floor 0.3 is 3);          *)
(*   - Math.random() returns r / RandRes for r in 0 .. RandRes-1;          *)
(*   - a target feature is an integer over TargetDen;                      *)
(*   - a score is a record [num, den] read against ScoreDen(targets).      *)
(***************************************************************************)
EXTENDS Integers, Sequences, FiniteSets, TLC

\* Resolution of Math.random(): its values are 0/RandRes .. (RandRes-1)/RandRes.
RandRes == 2
\* Largest candidate pool the recommendation endpoint returns.
MaxTracks == 1
\* Largest candidate pool and target count given to filterAndSelectTracks alone.
MaxPool == 3

Max(a, b) == IF a >= b THEN a ELSE b
Min(a, b) == IF a <= b THEN a ELSE b
Abs(a) == IF a >= 0 THEN a ELSE -a

----------------------------------------------------------------------------
(* The mood profile table, playlistService.ts 8-69.                         *)

Emotions == {"happy", "sad", "energetic", "calm", "anxious", "nostalgic"}

FeatureNames == {"energy", "valence", "danceability", "tempo"}

Range(lo, hi) == [min |-> lo, max |-> hi]

moodProfiles ==
  [ happy |->
      [ genres |-> <<"pop", "dance", "funk", "disco", "reggae">>,
        audioFeatures |-> [ energy |-> Range(6, 10), valence |-> Range(6, 10),
                            danceability |-> Range(5, 10), tempo |-> Range(100, 180) ],
        keywords |-> <<"upbeat", "positive", "celebration", "sunshine", "party">> ],
    sad |->
      [ genres |-> <<"indie", "alternative", "folk", "blues", "singer-songwriter">>,
        audioFeatures |-> [ energy |-> Range(0, 5), valence |-> Range(0, 4),
                            danceability |-> Range(0, 5), tempo |-> Range(60, 100) ],
        keywords |-> <<"melancholy", "heartbreak", "rain", "alone", "emotional">> ],
    energetic |->
      [ genres |-> <<"rock", "electronic", "hip-hop", "punk", "metal">>,
        audioFeatures |-> [ energy |-> Range(7, 10), valence |-> Range(4, 10),
                            danceability |-> Range(6, 10), tempo |-> Range(120, 200) ],
        keywords |-> <<"workout", "adrenaline", "power", "intense", "drive">> ],
    calm |->
      [ genres |-> <<"ambient", "classical", "new-age", "lo-fi", "acoustic">>,
        audioFeatures |-> [ energy |-> Range(0, 4), valence |-> Range(3, 7),
                            danceability |-> Range(0, 4), tempo |-> Range(60, 100) ],
        keywords |-> <<"peaceful", "meditation", "sleep", "nature", "zen">> ],
    anxious |->
      [ genres |-> <<"indie-rock", "alternative", "electronic", "experimental">>,
        audioFeatures |-> [ energy |-> Range(3, 7), valence |-> Range(2, 6),
                            danceability |-> Range(3, 7), tempo |-> Range(80, 140) ],
        keywords |-> <<"restless", "uncertainty", "tension", "introspective">> ],
    nostalgic |->
      [ genres |-> <<"oldies", "classic-rock", "soul", "jazz", "country">>,
        audioFeatures |-> [ energy |-> Range(2, 7), valence |-> Range(3, 8),
                            danceability |-> Range(3, 7), tempo |-> Range(70, 130) ],
        keywords |-> <<"memories", "vintage", "throwback", "classic", "timeless">> ] ]

\* moodProfiles is an object literal: besides its six own properties a lookup
\* finds what Object.prototype provides (functions, and Object.prototype itself
\* under "__proto__"), all of them truthy and none with a genres property.
ObjectPrototypeKeys ==
  { "constructor", "toString", "toLocaleString", "valueOf", "hasOwnProperty",
    "isPrototypeOf", "propertyIsEnumerable", "__proto__" }

\* this.moodProfiles[key], playlistService.ts 78: "own" (a MoodMusicProfile),
\* "inherited" (a truthy value that is no profile) or "undefined".
LookupKind(key) ==
  IF key \in DOMAIN moodProfiles THEN "own"
  ELSE IF key \in ObjectPrototypeKeys THEN "inherited"
  ELSE "undefined"

----------------------------------------------------------------------------
(* Target features, playlistService.ts 150-171.                             *)

\* The floor of the strictness, 0.3, in tenths.
StrictnessFloor == 3

\* Denominator of a target feature value.
TargetDen == 20 * RandRes

\* Math.max(range.min, Math.min(range.max, midpoint + (rand - 0.5) * variance * 2))
\* with midpoint = (min + max) / 2 and variance = (max - min) * (1 - strictness) * 0.5.
\* strictness is in tenths, rand is r / RandRes, the result is over TargetDen:
\*   midpoint * TargetDen                = (min + max) * 10 * RandRes
\*   variance * 2 * 10                   = (max - min) * (10 - strictness)
\*   (rand - 0.5) * 2 * RandRes          = 2 * r - RandRes
\* getTargetValue with the spread growing with the strictness instead of shrinking.
getTargetValueInverted(range, strictness, r) ==
  LET midpoint == (range.min + range.max) * 10 * RandRes
      variance2 == (range.max - range.min) * strictness
      value == midpoint + (2 * r - RandRes) * variance2
  IN  Max(range.min * TargetDen, Min(range.max * TargetDen, value))

getTargetValue(range, strictness, r) ==
  LET midpoint == (range.min + range.max) * 10 * RandRes
      variance2 == (range.max - range.min) * (10 - strictness)
      value == midpoint + (2 * r - RandRes) * variance2
  IN  Max(range.min * TargetDen, Min(range.max * TargetDen, value))

\* calculateTargetFeatures with the tempo computed from the energy range.
calculateTargetFeaturesEnergyTempo(profileFeatures, confidence, draws) ==
  LET strictness == Max(StrictnessFloor, confidence)
  IN  [ energy |-> getTargetValue(profileFeatures.energy, strictness, draws.energy),
        valence |-> getTargetValue(profileFeatures.valence, strictness, draws.valence),
        danceability |->
          getTargetValue(profileFeatures.danceability, strictness, draws.danceability),
        tempo |-> getTargetValue(profileFeatures.energy, strictness, draws.tempo) ]

\* calculateTargetFeatures taking the confidence as the strictness, without the floor.
calculateTargetFeaturesNoFloor(profileFeatures, confidence, draws) ==
  LET strictness == confidence
  IN  [ energy |-> getTargetValue(profileFeatures.energy, strictness, draws.energy),
        valence |-> getTargetValue(profileFeatures.valence, strictness, draws.valence),
        danceability |->
          getTargetValue(profileFeatures.danceability, strictness, draws.danceability),
        tempo |-> getTargetValue(profileFeatures.tempo, strictness, draws.tempo) ]

\* draws[f] is the value Math.random() returns in the getTargetValue call of f.
calculateTargetFeatures(profileFeatures, confidence, draws) ==
  LET strictness == Max(StrictnessFloor, confidence)
  IN  [ energy |-> getTargetValue(profileFeatures.energy, strictness, draws.energy),
        valence |-> getTargetValue(profileFeatures.valence, strictness, draws.valence),
        danceability |->
          getTargetValue(profileFeatures.danceability, strictness, draws.danceability),
        tempo |-> getTargetValue(profileFeatures.tempo, strictness, draws.tempo) ]

RandomDraws == 0 .. RandRes - 1

TargetDraws == [FeatureNames -> RandomDraws]

----------------------------------------------------------------------------
(* Track scoring, playlistService.ts 206-238.                               *)

\* An entry of an audio-features array is an object (a function from some of
\* FeatureNames to numbers), null, or undefined when read past the end.
JsNull == [js |-> "null"]
JsUndefined == [js |-> "undefined"]

Truthy(v) == v # JsNull /\ v # JsUndefined

\* The weights of calculateTrackScore, in tenths.
weights == [energy |-> 3, valence |-> 3, danceability |-> 2, tempo |-> 2]

\* A score n / d is kept as [num, den] with n / d = num / (den * ScoreDen(t)):
\* the scores of one request share the targets t, hence ScoreDen(t).
ScoreDen(targetFeatures) ==
  10 * TargetDen * (IF "tempo" \in DOMAIN targetFeatures THEN targetFeatures.tempo ELSE 1)

ZeroScore == [num |-> 0, den |-> 1]

\* Whether the loop body of calculateTrackScore runs for the feature (line 218).
FeaturePresent(feature, actualFeatures, targetFeatures) ==
  feature \in DOMAIN actualFeatures /\ feature \in DOMAIN targetFeatures

\* score * weight of one feature, over ScoreDen(targetFeatures).  The actual
\* value a is a number of tenths (BPM for tempo), the target t is over
\* TargetDen, so diff = |a * TargetDen - t| is over TargetDen as well:
\*   tempo:  score = max(0, 1 - diff / t)  = max(0, t - diff) / t
\*   others: score = max(0, 1 - diff / 10) = max(0, 10 * TargetDen - diff) / (10 * TargetDen)
\* (the targets of a profile have tempo > 0: every tempo range starts at 60 or above).
\* WeightedFeatureScore with the tempo scored by its absolute difference in BPM,
\* as the other features are.
WeightedFeatureScoreAbsoluteTempo(feature, actualFeatures, targetFeatures) ==
  LET diff == Abs(actualFeatures[feature] * TargetDen - targetFeatures[feature])
      rest == IF "tempo" \in DOMAIN targetFeatures THEN targetFeatures.tempo ELSE 1
  IN  IF feature = "tempo"
        THEN Max(0, TargetDen - diff) * weights[feature] * 10 * rest
        ELSE Max(0, 10 * TargetDen - diff) * weights[feature] * rest

\* WeightedFeatureScore without Math.max(0, ...).
WeightedFeatureScoreUnclamped(feature, actualFeatures, targetFeatures) ==
  LET diff == Abs(actualFeatures[feature] * TargetDen - targetFeatures[feature])
      rest == IF "tempo" \in DOMAIN targetFeatures THEN targetFeatures.tempo ELSE 1
  IN  IF feature = "tempo"
        THEN (targetFeatures.tempo - diff) * weights[feature] * 10 * TargetDen
        ELSE (10 * TargetDen - diff) * weights[feature] * rest

WeightedFeatureScore(feature, actualFeatures, targetFeatures) ==
  LET diff == Abs(actualFeatures[feature] * TargetDen - targetFeatures[feature])
      rest == IF "tempo" \in DOMAIN targetFeatures THEN targetFeatures.tempo ELSE 1
  IN  IF feature = "tempo"
        THEN Max(0, targetFeatures.tempo - diff) * weights[feature] * 10 * TargetDen
        ELSE Max(0, 10 * TargetDen - diff) * weights[feature] * rest

\* calculateTrackScore dividing by the weight of all four features, present or not.
calculateTrackScoreAllWeights(actualFeatures, targetFeatures) ==
  LET Term(f) == IF FeaturePresent(f, actualFeatures, targetFeatures)
                   THEN WeightedFeatureScore(f, actualFeatures, targetFeatures) ELSE 0
      totalScore == Term("energy") + Term("valence") + Term("danceability") + Term("tempo")
      totalWeight == weights.energy + weights.valence + weights.danceability + weights.tempo
  IN  IF totalWeight > 0 THEN [num |-> totalScore, den |-> totalWeight] ELSE ZeroScore

calculateTrackScore(actualFeatures, targetFeatures) ==
  LET Term(f) == IF FeaturePresent(f, actualFeatures, targetFeatures)
                   THEN WeightedFeatureScore(f, actualFeatures, targetFeatures) ELSE 0
      Weight(f) == IF FeaturePresent(f, actualFeatures, targetFeatures)
                     THEN weights[f] ELSE 0
      totalScore == Term("energy") + Term("valence") + Term("danceability") + Term("tempo")
      totalWeight == Weight("energy") + Weight("valence") + Weight("danceability")
                       + Weight("tempo")
  IN  IF totalWeight > 0 THEN [num |-> totalScore, den |-> totalWeight] ELSE ZeroScore

\* The sign of a.score - b.score.
CompareScore(a, b) == a.num * b.den - b.num * a.den

----------------------------------------------------------------------------
(* The catalog wrappers of spotifyService.ts that reshape what they return. *)

\* getAudioFeatures, spotifyService.ts 138: the catalog's array, which has one
\* entry per requested id (the features or null), with the nulls filtered out.
getAudioFeatures(raw) == SelectSeq(raw, LAMBDA features : features # JsNull)

\* getAvailableGenres, spotifyService.ts 244-257: the genres of the reply, or
\* the empty list when the request fails.  (A list is used for includes() only,
\* so it is modelled as a set.)
getAvailableGenres(reply) == IF reply.ok THEN reply.genres ELSE {}

----------------------------------------------------------------------------
(* filterAndSelectTracks after its await, playlistService.ts 187-203.       *)

\* audioFeatures[index] of a JavaScript array (index from 1 here).
At(array, index) == IF index \in 1 .. Len(array) THEN array[index] ELSE JsUndefined

\* The map of lines 188-194.
scoreTracks(tracks, audioFeatures, targetFeatures) ==
  [ index \in 1 .. Len(tracks) |->
      LET features == At(audioFeatures, index)
      IN  IF ~Truthy(features)
            THEN [track |-> tracks[index], score |-> ZeroScore]
            ELSE [track |-> tracks[index],
                  score |-> calculateTrackScore(features, targetFeatures)] ]

\* Array.prototype.sort((a, b) => b.score - a.score), which is stable: an
\* insertion sort that puts an item behind every item it does not beat.
\* InsertByScore putting an item before the items it ties with (an unstable sort).
RECURSIVE InsertByScoreUnstable(_, _)
InsertByScoreUnstable(item, sorted) ==
  IF sorted = <<>> THEN <<item>>
  ELSE IF CompareScore(item.score, Head(sorted).score) >= 0
         THEN <<item>> \o sorted
         ELSE <<Head(sorted)>> \o InsertByScoreUnstable(item, Tail(sorted))

RECURSIVE InsertByScore(_, _)
InsertByScore(item, sorted) ==
  IF sorted = <<>> THEN <<item>>
  ELSE IF CompareScore(item.score, Head(sorted).score) > 0
         THEN <<item>> \o sorted
         ELSE <<Head(sorted)>> \o InsertByScore(item, Tail(sorted))

RECURSIVE SortFrom(_, _, _)
SortFrom(items, k, sorted) ==
  IF k > Len(items) THEN sorted
  ELSE SortFrom(items, k + 1, InsertByScore(items[k], sorted))

sortByScore(scoredTracks) == SortFrom(scoredTracks, 1, <<>>)

\* .slice(0, targetCount).map(item => item.track), lines 199-200.
takeBest(sorted, targetCount) ==
  [ k \in 1 .. Min(targetCount, Len(sorted)) |-> sorted[k].track ]

\* shuffleArray, lines 273-280.  draws[i] is the Math.random() of iteration i.
Swap(array, i, j) == [array EXCEPT ![i] = array[j], ![j] = array[i]]

RECURSIVE ShuffleFrom(_, _, _)
ShuffleFrom(shuffled, i, draws) ==
  IF i < 1 THEN shuffled
  ELSE LET j == (draws[i] * (i + 1)) \div RandRes
       IN  ShuffleFrom(Swap(shuffled, i + 1, j + 1), i - 1, draws)

shuffleArray(array, draws) == ShuffleFrom(array, Len(array) - 1, draws)

ShuffleDraws(n) == [1 .. n - 1 -> RandomDraws]

\* Lines 197-203: sort, slice, map and shuffle.
selectTracks(scoredTracks, targetCount, shuffleDraws) ==
  shuffleArray(takeBest(sortByScore(scoredTracks), targetCount), shuffleDraws)

----------------------------------------------------------------------------
(* Genres, playlist name and description of generatePlaylist.               *)

\* The most genres used as seeds, playlistService.ts 87.
MaxGenres == 3

\* Lines 85-92: the profile's genres that are available, at most three of
\* them, or 'pop' when there is none.
\* filterGenres without the slice(0, 3).
filterGenresUncapped(genres, availableGenres) ==
  LET matching == SelectSeq(genres, LAMBDA genre : genre \in availableGenres)
  IN  IF Len(matching) = 0 THEN <<"pop">> ELSE matching

filterGenres(genres, availableGenres) ==
  LET matching == SelectSeq(genres, LAMBDA genre : genre \in availableGenres)
      filteredGenres == SubSeq(matching, 1, Min(MaxGenres, Len(matching)))
  IN  IF Len(filteredGenres) = 0 THEN <<"pop">> ELSE filteredGenres

\* moodNames, playlistService.ts 241-248.
moodNames ==
  [ happy |-> <<"Sunshine Vibes", "Feel Good Hits", "Happy Hour", "Positivity Playlist",
                "Joyful Jams">>,
    sad |-> <<"Melancholy Moments", "Rainy Day Blues", "Heartbreak Hotel",
              "Emotional Journey", "Tears & Tunes">>,
    energetic |-> <<"Power Hour", "Adrenaline Rush", "High Energy Hits", "Pump It Up",
                    "Electric Vibes">>,
    calm |-> <<"Peaceful Moments", "Zen Zone", "Tranquil Tunes", "Meditation Music",
               "Serenity Sounds">>,
    anxious |-> <<"Restless Mind", "Anxious Energy", "Introspective Indie",
                  "Uncertain Times", "Tension & Release">>,
    nostalgic |-> <<"Memory Lane", "Throwback Therapy", "Vintage Vibes", "Golden Oldies",
                    "Nostalgic Notes">> ]

\* moodDescriptions, playlistService.ts 259-266.
moodDescriptions ==
  [ happy |-> "Uplifting tracks to keep your spirits high and energy positive.",
    sad |-> "Contemplative songs that understand and embrace your current emotional state.",
    energetic |-> "High-energy tracks to fuel your motivation and drive.",
    calm |-> "Soothing melodies to help you relax and find inner peace.",
    anxious |-> "Music that acknowledges restlessness while providing comfort.",
    nostalgic |-> "Songs that capture the bittersweet beauty of memories and past times." ]

\* new Date().toLocaleDateString()
Today == "today"

\* generatePlaylistName, lines 240-254; r is its Math.random().  An inherited
\* property of moodNames is truthy and has no indexed element, so the name
\* chosen from it is undefined.
generatePlaylistName(moodAnalysis, r) ==
  LET key == moodAnalysis.primaryEmotion
      names == IF key \in DOMAIN moodNames THEN moodNames[key] ELSE <<"Mixed Mood Music">>
      randomName == IF key \in ObjectPrototypeKeys THEN "undefined"
                    ELSE names[((r * Len(names)) \div RandRes) + 1]
  IN  [name |-> randomName, date |-> Today]

\* The longest quote of the raw text in a description, line 257.
QuoteLength == 100

\* generatePlaylistDescription, lines 256-271.  A text is modelled by its length.
generatePlaylistDescription(moodAnalysis) ==
  LET key == moodAnalysis.primaryEmotion
      moodDesc == IF key \in DOMAIN moodDescriptions THEN moodDescriptions[key]
                  ELSE IF key \in ObjectPrototypeKeys THEN "[inherited property]"
                  ELSE "Curated tracks to match your current mood."
  IN  [ quote |-> Min(moodAnalysis.rawText, QuoteLength),
        ellipsis |-> moodAnalysis.rawText > QuoteLength,
        mood |-> moodDesc,
        confidence |-> moodAnalysis.confidence * 10 ]

----------------------------------------------------------------------------
(* State.                                                                   *)

VARIABLES
  pc,                \* where the request is: "idle", the collaborator call it awaits, or "responded"
  req,               \* the HTTP request of POST /api/playlist/generate
  genresResponse,    \* what the genre endpoint answered inside getAvailableGenres
  filteredGenres,    \* generatePlaylist's filteredGenres
  targetFeatures,    \* generatePlaylist's targetFeatures
  targetCount,       \* filterAndSelectTracks' targetCount
  recommendedTracks, \* generatePlaylist's recommendedTracks = filterAndSelectTracks' tracks
  featuresResponse,  \* what the audio-features endpoint answered inside getAudioFeatures
  audioFeatures,     \* filterAndSelectTracks' audioFeatures
  scoredTracks,      \* filterAndSelectTracks' scoredTracks, before the sort
  selectedTracks,    \* what filterAndSelectTracks returns
  playlist,          \* the playlist handle createPlaylist returned
  calls,             \* the calls made to SpotifyService, oldest first
  spotify,           \* the playlists on the external service
  caught,            \* the error generatePlaylist's catch block received
  result,            \* how generatePlaylist ended
  response,          \* the HTTP response sent
  table,             \* this.moodProfiles of the PlaylistService instance the routes share
  tasks,             \* the invocations running on that instance, each with its own locals
  metadata,          \* generatePlaylist's playlistName and playlistDescription
  mood               \* the invocation of MoodService.analyzeMood

vars ==
  << pc, req, genresResponse, filteredGenres, targetFeatures, targetCount, recommendedTracks,
     featuresResponse, audioFeatures, scoredTracks, selectedTracks, playlist, calls, spotify,
     caught, result, response, table, tasks, metadata, mood >>

\* What a single request to POST /api/playlist/generate leaves alone.
others == << table, tasks, metadata, mood >>

locals ==
  << genresResponse, filteredGenres, targetFeatures, targetCount, recommendedTracks,
     featuresResponse, audioFeatures, scoredTracks, selectedTracks, playlist >>

\* The target playlist length and the size of the pool asked for, lines 105 and 113.
PlaylistLength == 15
PoolSize == 30

\* A call to a SpotifyService method: pending until it returns or throws.
Call(op, args) == [op |-> op, args |-> args, status |-> "pending"]

\* The last call has ended with the given status ("returned" or "threw").
Settle(log, status) == [log EXCEPT ![Len(log)].status = status]

Absent == "(absent)"
NoResult == [kind |-> "none"]
NoResponse == [status |-> 0]

Init ==
  /\ pc = "idle"
  /\ req = JsUndefined
  /\ genresResponse = JsUndefined
  /\ filteredGenres = <<>>
  /\ targetFeatures = JsUndefined
  /\ targetCount = 0
  /\ recommendedTracks = <<>>
  /\ featuresResponse = JsUndefined
  /\ audioFeatures = <<>>
  /\ scoredTracks = <<>>
  /\ selectedTracks = <<>>
  /\ playlist = JsUndefined
  /\ calls = <<>>
  /\ spotify = <<>>
  /\ caught = Absent
  /\ result = NoResult
  /\ response = NoResponse
  /\ table = moodProfiles
  /\ tasks = <<>>
  /\ metadata = JsUndefined
  /\ mood = JsUndefined

----------------------------------------------------------------------------
(* How generatePlaylist and its route end.                                  *)

\* The catch block of generatePlaylist, playlistService.ts 144-147: the
\* message of the error it throws for the error it caught.
\* The catch block rethrowing what it caught.
catchGenerateRethrow(error) == error

catchGenerate(error) == "Failed to generate playlist"

\* The catch block of the route, spotify.ts 213-220.
routeCatch(error) ==
  [ status |-> 500, success |-> FALSE, error |-> "Failed to generate playlist",
    message |-> error, data |-> JsUndefined ]

\* A validation failure of the route, spotify.ts 166-198.
routeReject(status, error) ==
  [ status |-> status, success |-> FALSE, error |-> error, message |-> Absent,
    data |-> JsUndefined ]

\* The success reply of the route, spotify.ts 207-211.
routeSuccess(generated) ==
  [ status |-> 200, success |-> TRUE, error |-> Absent,
    message |-> "Playlist generated and created successfully", data |-> generated ]

\* generatePlaylist throws: its catch block rethrows, the route answers 500.
Fail(error) ==
  /\ caught' = error
  /\ result' = [kind |-> "thrown", message |-> catchGenerate(error)]
  /\ response' = routeCatch(catchGenerate(error))
  /\ pc' = "responded"

\* filterAndSelectTracks' guard, playlistService.ts 179.
\* filterAndSelectTracks without its guard.
noTracksUnchecked(tracks) == FALSE

noTracks(tracks) == Len(tracks) = 0

\* `spotify:track:${track.id}`, line 130.
trackUri(track) == <<"spotify:track", track>>

----------------------------------------------------------------------------
(* POST /api/playlist/generate up to the first await of generatePlaylist:   *)
(* spotify.ts 162-205 and playlistService.ts 76-84.                         *)

PostGenerate(r) ==
  /\ pc = "idle"
  /\ req' = r
  /\ IF r.authorization # "Bearer"
       THEN /\ response' = routeReject(401, "Authorization header with Bearer token is required")
            /\ pc' = "responded"
            /\ UNCHANGED <<calls, caught, result>>
     ELSE IF ~Truthy(r.moodAnalysis)
       THEN /\ response' = routeReject(400, "Mood analysis data is required")
            /\ pc' = "responded"
            /\ UNCHANGED <<calls, caught, result>>
     ELSE IF r.userId = ""
       THEN /\ response' = routeReject(400, "User ID is required")
            /\ pc' = "responded"
            /\ UNCHANGED <<calls, caught, result>>
     ELSE IF \/ r.moodAnalysis.primaryEmotion = ""
             \/ ~Truthy(r.moodAnalysis.emotions)
             \/ r.moodAnalysis.rawText = 0
       THEN /\ response' = routeReject(400, "Invalid mood analysis data structure")
            /\ pc' = "responded"
            /\ UNCHANGED <<calls, caught, result>>
     ELSE IF LookupKind(r.moodAnalysis.primaryEmotion) = "undefined"
       THEN /\ Fail("Unknown mood")
            /\ UNCHANGED calls
     ELSE /\ calls' = Append(calls, Call("getAvailableGenres", <<>>))
          /\ pc' = "getAvailableGenres"
          /\ UNCHANGED <<caught, result, response>>
  /\ UNCHANGED <<locals, spotify>>

(* getAvailableGenres returns: playlistService.ts 84-106.                   *)
GenresReturn(reply, draws) ==
  /\ pc = "getAvailableGenres"
  /\ genresResponse' = reply
  /\ LET moodAnalysis == req.moodAnalysis
         availableGenres == getAvailableGenres(reply)
     IN  IF LookupKind(moodAnalysis.primaryEmotion) = "inherited"
           THEN \* profile.genres is undefined: profile.genres.filter throws
                /\ calls' = Settle(calls, "returned")
                /\ Fail("TypeError")
                /\ UNCHANGED <<filteredGenres, targetFeatures>>
           ELSE LET profile == moodProfiles[moodAnalysis.primaryEmotion]
                    genres == filterGenres(profile.genres, availableGenres)
                    targets == calculateTargetFeatures(profile.audioFeatures,
                                                       moodAnalysis.confidence, draws)
                IN  /\ filteredGenres' = genres
                    /\ targetFeatures' = targets
                    /\ calls' = Append(Settle(calls, "returned"),
                                       Call("getRecommendations", <<genres, targets, PoolSize>>))
                    /\ pc' = "getRecommendations"
                    /\ UNCHANGED <<caught, result, response>>
  /\ UNCHANGED <<req, targetCount, recommendedTracks, featuresResponse, audioFeatures,
                 scoredTracks, selectedTracks, playlist, spotify>>

\* generatePlaylist using the recommended tracks as they come, without
\* filterAndSelectTracks.
RecommendationsReturnUnfiltered(reply) ==
  /\ pc = "getRecommendations"
  /\ IF ~reply.ok
       THEN /\ calls' = Settle(calls, "threw")
            /\ Fail("Failed to get recommendations")
            /\ UNCHANGED <<recommendedTracks, selectedTracks>>
       ELSE /\ recommendedTracks' = reply.tracks
            /\ selectedTracks' = reply.tracks
            /\ calls' = Append(Settle(calls, "returned"),
                               Call("createPlaylist",
                                    << req.userId, generatePlaylistName(req.moodAnalysis, 0),
                                       generatePlaylistDescription(req.moodAnalysis), FALSE >>))
            /\ pc' = "createPlaylist"
            /\ UNCHANGED <<caught, result, response>>
  /\ UNCHANGED <<req, genresResponse, filteredGenres, targetFeatures, targetCount,
                 featuresResponse, audioFeatures, scoredTracks, playlist, spotify>>

\* generatePlaylist asking for recommendations a second time when the first
\* request fails.
RecommendationsReturnRetry(reply) ==
  /\ pc = "getRecommendations"
  /\ IF ~reply.ok
       THEN IF Len(calls) < 3
              THEN /\ calls' = Append(Settle(calls, "threw"), calls[Len(calls)])
                   /\ UNCHANGED <<pc, caught, result, response, recommendedTracks, targetCount>>
              ELSE /\ calls' = Settle(calls, "threw")
                   /\ Fail("Failed to get recommendations")
                   /\ UNCHANGED <<recommendedTracks, targetCount>>
       ELSE /\ recommendedTracks' = reply.tracks
            /\ targetCount' = PlaylistLength
            /\ IF noTracks(reply.tracks)
                 THEN /\ calls' = Settle(calls, "returned")
                      /\ Fail("No tracks found for the given mood")
                 ELSE /\ calls' = Append(Settle(calls, "returned"),
                                         Call("getAudioFeatures", <<reply.tracks>>))
                      /\ pc' = "getAudioFeatures"
                      /\ UNCHANGED <<caught, result, response>>
  /\ UNCHANGED <<req, genresResponse, filteredGenres, targetFeatures, featuresResponse,
                 audioFeatures, scoredTracks, selectedTracks, playlist, spotify>>

(* getRecommendations returns or throws: playlistService.ts 101-114 and the *)
(* start of filterAndSelectTracks, 173-185.                                 *)
RecommendationsReturn(reply) ==
  /\ pc = "getRecommendations"
  /\ IF ~reply.ok
       THEN /\ calls' = Settle(calls, "threw")
            /\ Fail("Failed to get recommendations")
            /\ UNCHANGED <<recommendedTracks, targetCount>>
       ELSE /\ recommendedTracks' = reply.tracks
            /\ targetCount' = PlaylistLength
            /\ IF noTracks(reply.tracks)
                 THEN /\ calls' = Settle(calls, "returned")
                      /\ Fail("No tracks found for the given mood")
                 ELSE /\ calls' = Append(Settle(calls, "returned"),
                                         Call("getAudioFeatures", <<reply.tracks>>))
                      /\ pc' = "getAudioFeatures"
                      /\ UNCHANGED <<caught, result, response>>
  /\ UNCHANGED <<req, genresResponse, filteredGenres, targetFeatures, featuresResponse,
                 audioFeatures, scoredTracks, selectedTracks, playlist, spotify>>

(* getAudioFeatures returns or throws: the rest of filterAndSelectTracks,   *)
(* 185-203, and generatePlaylist 116-127.                                   *)
AudioFeaturesReturn(reply, shuffleDraws, nameDraw) ==
  /\ pc = "getAudioFeatures"
  /\ featuresResponse' = reply
  /\ IF ~reply.ok
       THEN /\ calls' = Settle(calls, "threw")
            /\ Fail("Failed to get audio features")
            /\ UNCHANGED <<audioFeatures, scoredTracks, selectedTracks>>
       ELSE LET features == getAudioFeatures(reply.audio_features)
                scored == scoreTracks(recommendedTracks, features, targetFeatures)
                playlistName == generatePlaylistName(req.moodAnalysis, nameDraw)
                playlistDescription == generatePlaylistDescription(req.moodAnalysis)
            IN  /\ audioFeatures' = features
                /\ scoredTracks' = scored
                /\ selectedTracks' = selectTracks(scored, targetCount, shuffleDraws)
                /\ calls' = Append(Settle(calls, "returned"),
                                   Call("createPlaylist",
                                        <<req.userId, playlistName, playlistDescription, FALSE>>))
                /\ pc' = "createPlaylist"
                /\ UNCHANGED <<caught, result, response>>
  /\ UNCHANGED <<req, genresResponse, filteredGenres, targetFeatures, targetCount,
                 recommendedTracks, playlist, spotify>>

(* createPlaylist returns or throws: playlistService.ts 121-135.            *)
CreatePlaylistReturn(ok) ==
  /\ pc = "createPlaylist"
  /\ IF ~ok
       THEN /\ calls' = Settle(calls, "threw")
            /\ Fail("Failed to create playlist")
            /\ UNCHANGED <<playlist, spotify>>
       ELSE LET args == calls[Len(calls)].args
                created == [ id |-> Len(spotify) + 1, name |-> args[2],
                             description |-> args[3], public |-> args[4],
                             tracks |-> <<>> ]
                trackUris == [k \in 1 .. Len(selectedTracks) |-> trackUri(selectedTracks[k])]
            IN  /\ spotify' = Append(spotify, created)
                /\ playlist' = [ id |-> created.id, name |-> created.name,
                                 description |-> created.description,
                                 external_urls |-> <<"playlist url", created.id>> ]
                /\ calls' = Append(Settle(calls, "returned"),
                                   Call("addTracksToPlaylist", <<created.id, trackUris>>))
                /\ pc' = "addTracksToPlaylist"
                /\ UNCHANGED <<caught, result, response>>
  /\ UNCHANGED <<req, genresResponse, filteredGenres, targetFeatures, targetCount,
                 recommendedTracks, featuresResponse, audioFeatures, scoredTracks,
                 selectedTracks>>

\* generatePlaylist deleting the playlist it created when the tracks cannot be added.
AddTracksReturnRollback(ok) ==
  /\ pc = "addTracksToPlaylist"
  /\ IF ~ok
       THEN /\ calls' = Settle(calls, "threw")
            /\ Fail("Failed to add tracks to playlist")
            /\ spotify' = SubSeq(spotify, 1, Len(spotify) - 1)
       ELSE LET args == calls[Len(calls)].args
                generated == [ id |-> playlist.id, name |-> playlist.name,
                               description |-> playlist.description,
                               tracks |-> selectedTracks,
                               external_urls |-> playlist.external_urls ]
            IN  /\ spotify' = [spotify EXCEPT ![args[1]].tracks = @ \o args[2]]
                /\ calls' = Settle(calls, "returned")
                /\ result' = [kind |-> "returned", value |-> generated]
                /\ response' = routeSuccess(generated)
                /\ pc' = "responded"
                /\ UNCHANGED caught
  /\ UNCHANGED <<req, locals>>

(* addTracksToPlaylist returns or throws: playlistService.ts 131-147 and    *)
(* the route's reply, spotify.ts 207-220.                                   *)
AddTracksReturn(ok) ==
  /\ pc = "addTracksToPlaylist"
  /\ IF ~ok
       THEN /\ calls' = Settle(calls, "threw")
            /\ Fail("Failed to add tracks to playlist")
            /\ UNCHANGED spotify
       ELSE LET args == calls[Len(calls)].args
                generated == [ id |-> playlist.id, name |-> playlist.name,
                               description |-> playlist.description,
                               tracks |-> selectedTracks,
                               external_urls |-> playlist.external_urls ]
            IN  /\ spotify' = [spotify EXCEPT ![args[1]].tracks = @ \o args[2]]
                /\ calls' = Settle(calls, "returned")
                /\ result' = [kind |-> "returned", value |-> generated]
                /\ response' = routeSuccess(generated)
                /\ pc' = "responded"
                /\ UNCHANGED caught
  /\ UNCHANGED <<req, locals>>

----------------------------------------------------------------------------
(* What the caller and the external service may send.                       *)

\* primaryEmotion values: the six categories, a word that is none of them,
\* two names Object.prototype defines, and the empty string.
EmotionKeys == Emotions \cup {"furious", "constructor", "toString", ""}

\* The emotions field of a MoodAnalysis (its scores play no part here).
EmotionScores == [e \in Emotions |-> 0]

\* Lengths of rawText: the empty text and "I feel amazing today!".
TextLengths == {0, 21}

MoodAnalyses(confidences) ==
  [ primaryEmotion : EmotionKeys, emotions : {JsUndefined, EmotionScores},
    confidence : confidences, rawText : TextLengths ]

Requests(confidences) ==
  [ authorization : {"none", "Basic", "Bearer"},
    moodAnalysis : {JsUndefined} \cup MoodAnalyses(confidences),
    userId : {"", "user1"} ]

ValidRequests(confidences) ==
  { r \in Requests(confidences) :
      /\ r.authorization = "Bearer" /\ r.userId # "" /\ Truthy(r.moodAnalysis)
      /\ r.moodAnalysis.primaryEmotion # "" /\ Truthy(r.moodAnalysis.emotions)
      /\ r.moodAnalysis.rawText # 0 }

SeqRange(seq) == {seq[k] : k \in 1 .. Len(seq)}

ProfileGenres(key) ==
  IF key \in DOMAIN moodProfiles THEN SeqRange(moodProfiles[key].genres) ELSE {}

AllGenres == UNION {ProfileGenres(key) : key \in Emotions} \cup {"classical"}

GenreReply(genres) == [ok |-> TRUE, genres |-> genres]
GenreFailure == [ok |-> FALSE, genres |-> {}]

\* Every reply over the profile's own genres and one genre that is not pop.
AllGenreReplies(key) ==
  {GenreFailure} \cup {GenreReply(g) : g \in SUBSET (ProfileGenres(key) \cup {"classical"})}

\* A failure, a short list and the whole taxonomy.
SomeGenreReplies ==
  {GenreFailure, GenreReply({"pop", "dance", "classical"}), GenreReply(AllGenres)}

\* The catalog: a track is its id; tracks with an odd id are upbeat, the others quiet.
CatalogFeatures(track) ==
  IF track % 2 = 1
    THEN [energy |-> 8, valence |-> 8, danceability |-> 7, tempo |-> 140]
    ELSE [energy |-> 2, valence |-> 3, danceability |-> 2, tempo |-> 70]

RecommendationReplies ==
  {[ok |-> FALSE, tracks |-> <<>>]}
    \cup {[ok |-> TRUE, tracks |-> [k \in 1 .. n |-> k]] : n \in 0 .. MaxTracks}

\* The catalog answers with one entry per id: the track's features or null.
AudioFeatureReplies(tracks) ==
  {[ok |-> FALSE, audio_features |-> <<>>]}
    \cup { [ ok |-> TRUE,
             audio_features |->
               [k \in 1 .. Len(tracks) |->
                  IF k \in missing THEN JsNull ELSE CatalogFeatures(tracks[k])] ] :
           missing \in SUBSET (1 .. Len(tracks)) }

----------------------------------------------------------------------------
(* Spec: one request through the whole of generatePlaylist.                 *)

Request == (\E r \in Requests({0, 10}) : PostGenerate(r)) /\ UNCHANGED others

GenresArrive ==
  /\ \E reply \in SomeGenreReplies, draws \in TargetDraws : GenresReturn(reply, draws)
  /\ UNCHANGED others

RecommendationsArrive ==
  /\ \E reply \in RecommendationReplies : RecommendationsReturn(reply)
  /\ UNCHANGED others

AudioFeaturesArrive ==
  /\ \E reply \in AudioFeatureReplies(recommendedTracks),
        shuffleDraws \in ShuffleDraws(Min(targetCount, Len(recommendedTracks))),
        nameDraw \in RandomDraws :
       AudioFeaturesReturn(reply, shuffleDraws, nameDraw)
  /\ UNCHANGED others

CreatePlaylistEnds == (\E ok \in BOOLEAN : CreatePlaylistReturn(ok)) /\ UNCHANGED others

AddTracksEnds == (\E ok \in BOOLEAN : AddTracksReturn(ok)) /\ UNCHANGED others

Next ==
  \/ Request
  \/ GenresArrive
  \/ RecommendationsArrive
  \/ AudioFeaturesArrive
  \/ CreatePlaylistEnds
  \/ AddTracksEnds

Spec == Init /\ [][Next]_vars

----------------------------------------------------------------------------
(* SpecGenres: the start of generatePlaylist for every reply of the genre   *)
(* endpoint, at confidence 1.0.                                             *)

GenresRequest == (\E r \in ValidRequests({10}) : PostGenerate(r)) /\ UNCHANGED others

AnyGenresArrive ==
  /\ pc = "getAvailableGenres"
  /\ \E reply \in AllGenreReplies(req.moodAnalysis.primaryEmotion), draws \in TargetDraws :
       GenresReturn(reply, draws)
  /\ UNCHANGED others

NextGenres == GenresRequest \/ AnyGenresArrive

SpecGenres == Init /\ [][NextGenres]_vars

----------------------------------------------------------------------------
(* SpecTargets: the start of generatePlaylist for every confidence and      *)
(* every draw of Math.random().                                             *)

TargetsRequest == (\E r \in ValidRequests(0 .. 10) : PostGenerate(r)) /\ UNCHANGED others

TargetsDrawn ==
  /\ \E reply \in {GenreFailure, GenreReply(AllGenres)}, draws \in TargetDraws :
       GenresReturn(reply, draws)
  /\ UNCHANGED others

NextTargets == TargetsRequest \/ TargetsDrawn

SpecTargets == Init /\ [][NextTargets]_vars

----------------------------------------------------------------------------
(* SpecSelect: filterAndSelectTracks alone, playlistService.ts 173-204, for *)
(* every pool of distinct catalog tracks, every target count and the        *)
(* midpoint targets of every profile.                                       *)

Pools ==
  UNION { { tracks \in [1 .. n -> 1 .. MaxPool] :
              \A i, j \in 1 .. n : tracks[i] = tracks[j] => i = j } : n \in 0 .. MaxPool }

MidpointTargets ==
  { calculateTargetFeatures(moodProfiles[key].audioFeatures, 10, [f \in FeatureNames |-> 0]) :
      key \in Emotions }

InitSelect ==
  /\ pc = "filterAndSelectTracks"
  /\ req = JsUndefined
  /\ genresResponse = JsUndefined
  /\ filteredGenres = <<>>
  /\ targetFeatures \in MidpointTargets
  /\ targetCount \in (0 .. MaxPool) \cup {PlaylistLength}
  /\ recommendedTracks \in Pools
  /\ featuresResponse = JsUndefined
  /\ audioFeatures = <<>>
  /\ scoredTracks = <<>>
  /\ selectedTracks = <<>>
  /\ playlist = JsUndefined
  /\ calls = <<>>
  /\ spotify = <<>>
  /\ caught = Absent
  /\ result = NoResult
  /\ response = NoResponse
  /\ table = moodProfiles
  /\ tasks = <<>>
  /\ metadata = JsUndefined
  /\ mood = JsUndefined

\* Lines 179-185: the guard and the call of getAudioFeatures.
SelectEnter ==
  /\ pc = "filterAndSelectTracks"
  /\ IF noTracks(recommendedTracks)
       THEN /\ caught' = "No tracks found for the given mood"
            /\ pc' = "threw"
            /\ UNCHANGED calls
       ELSE /\ calls' = Append(calls, Call("getAudioFeatures", <<recommendedTracks>>))
            /\ pc' = "getAudioFeatures"
            /\ UNCHANGED caught
  /\ UNCHANGED <<req, locals, spotify, result, response, others>>

\* Lines 185-203: getAudioFeatures returns or throws.
SelectReturn(reply, shuffleDraws) ==
  /\ pc = "getAudioFeatures"
  /\ featuresResponse' = reply
  /\ IF ~reply.ok
       THEN /\ calls' = Settle(calls, "threw")
            /\ caught' = "Failed to get audio features"
            /\ pc' = "threw"
            /\ UNCHANGED <<audioFeatures, scoredTracks, selectedTracks>>
       ELSE LET features == getAudioFeatures(reply.audio_features)
                scored == scoreTracks(recommendedTracks, features, targetFeatures)
            IN  /\ audioFeatures' = features
                /\ scoredTracks' = scored
                /\ selectedTracks' = selectTracks(scored, targetCount, shuffleDraws)
                /\ calls' = Settle(calls, "returned")
                /\ pc' = "selected"
                /\ UNCHANGED caught
  /\ UNCHANGED <<req, genresResponse, filteredGenres, targetFeatures, targetCount,
                 recommendedTracks, playlist, spotify, result, response, others>>

SelectFeaturesArrive ==
  \E reply \in AudioFeatureReplies(recommendedTracks),
     shuffleDraws \in ShuffleDraws(Min(targetCount, Len(recommendedTracks))) :
    SelectReturn(reply, shuffleDraws)

NextSelect == SelectEnter \/ SelectFeaturesArrive

SpecSelect == InitSelect /\ [][NextSelect]_vars

----------------------------------------------------------------------------
(* SpecScore: filterAndSelectTracks scoring one candidate, for the targets  *)
(* of every profile and the feature vectors the catalog may answer with:    *)
(* values on, near and far off the targets, outside [0, 1], a tempo of 0    *)
(* or far above the target, and vectors with features missing.              *)

Restrict(f, S) == [x \in S |-> f[x]]

\* The targets calculateTargetFeatures gives at the floor, a middle and full
\* confidence, the four features sharing one draw.
ProfileTargets ==
  { calculateTargetFeatures(moodProfiles[key].audioFeatures, confidence,
                            [f \in FeatureNames |-> r]) :
      key \in Emotions, confidence \in {StrictnessFloor, 5, 10}, r \in RandomDraws }

\* The target sets calculateTrackScore is given: those of a profile, and the
\* same with features left out.
ScoreTargets ==
  { Restrict(targets, present) :
      targets \in ProfileTargets,
      present \in { FeatureNames, {"energy"}, {"tempo"}, {"valence", "danceability"}, {} } }

\* Values of one feature of a track: for energy, valence and danceability
\* -0.5, the target rounded down to a tenth, 0.3 above that and 2.5; for the
\* tempo 0, the target rounded down, 7 BPM above that, twice the target rounded
\* up and 1000 BPM.
\* (A feature without a target takes its values around 0.5 and 100 BPM.)
FeatureValues(feature, targets) ==
  LET target == IF feature \in DOMAIN targets THEN targets[feature]
                ELSE IF feature = "tempo" THEN 100 * TargetDen ELSE 5 * TargetDen
      floor == target \div TargetDen
  IN  IF feature = "tempo"
        THEN {0, floor, floor + 7, (2 * target + TargetDen - 1) \div TargetDen, 1000}
        ELSE {-5, floor, floor + 3, 25}

\* The feature vectors of a track: any of the four features may be missing.
FeatureVectors(targets) ==
  { Restrict(values, present) :
      values \in [ energy : FeatureValues("energy", targets),
                   valence : FeatureValues("valence", targets),
                   danceability : FeatureValues("danceability", targets),
                   tempo : FeatureValues("tempo", targets) ],
      present \in SUBSET FeatureNames }

ScoreReplies(targets) ==
  {[ok |-> FALSE, audio_features |-> <<>>], [ok |-> TRUE, audio_features |-> <<JsNull>>]}
    \cup {[ok |-> TRUE, audio_features |-> <<features>>] : features \in FeatureVectors(targets)}

InitScore ==
  /\ pc = "filterAndSelectTracks"
  /\ req = JsUndefined
  /\ genresResponse = JsUndefined
  /\ filteredGenres = <<>>
  /\ targetFeatures \in ScoreTargets
  /\ targetCount = PlaylistLength
  /\ recommendedTracks = <<1>>
  /\ featuresResponse = JsUndefined
  /\ audioFeatures = <<>>
  /\ scoredTracks = <<>>
  /\ selectedTracks = <<>>
  /\ playlist = JsUndefined
  /\ calls = <<>>
  /\ spotify = <<>>
  /\ caught = Absent
  /\ result = NoResult
  /\ response = NoResponse
  /\ table = moodProfiles
  /\ tasks = <<>>
  /\ metadata = JsUndefined
  /\ mood = JsUndefined

ScoreFeaturesArrive ==
  /\ pc = "getAudioFeatures"
  /\ \E reply \in ScoreReplies(targetFeatures),
        shuffleDraws \in ShuffleDraws(Min(targetCount, Len(recommendedTracks))) :
       SelectReturn(reply, shuffleDraws)

NextScore == SelectEnter \/ ScoreFeaturesArrive

SpecScore == InitScore /\ [][NextScore]_vars

----------------------------------------------------------------------------
(* Invocations on the PlaylistService instance the routes share, spotify.ts *)
(* 159: generatePlaylist and searchByMoodKeywords, each invocation a task   *)
(* with its own locals and call log, all of them reading this.moodProfiles. *)
(* An action is the code of one invocation from one await to the next.      *)

\* The most invocations in flight on the instance.
MaxInvocations == 2

\* this.moodProfiles[key]: a profile, a truthy value inherited from
\* Object.prototype (which has neither genres nor keywords), or undefined.
lookupProfile(profiles, key) ==
  IF key \in DOMAIN profiles THEN profiles[key]
  ELSE IF key \in ObjectPrototypeKeys THEN [inherited |-> key]
  ELSE JsUndefined

\* The searches of one searchByMoodKeywords, their limit and the most tracks
\* it returns: playlistService.ts 298, 303 and 316.
MaxQueries == 5
SearchLimit == 10
MaxPreview == 30

\* [...profile.keywords, ...profile.genres, primaryEmotion].slice(0, 5), lines 290-298.
searchQueries(profile, primaryEmotion) ==
  LET all == profile.keywords \o profile.genres \o <<primaryEmotion>>
  IN  SubSeq(all, 1, Min(MaxQueries, Len(all)))

\* `genre:${query} OR ${query}`, line 302.
searchText(query) == <<"genre:", query, " OR ", query>>

\* self.findIndex(t => t.id === id), from 1; 0 when there is none.
findIndex(self, id) ==
  LET found == {k \in 1 .. Len(self) : self[k].id = id}
  IN  IF found = {} THEN 0 ELSE CHOOSE k \in found : \A m \in found : k <= m

\* allTracks.filter((track, index, self) => index === self.findIndex(...)), lines 312-314.
\* The filter keeping the last track of an id instead of the first.
RECURSIVE uniqueFromKeepLast(_, _)
uniqueFromKeepLast(self, index) ==
  IF index > Len(self) THEN <<>>
  ELSE IF \A m \in index + 1 .. Len(self) : self[m].id # self[index].id
         THEN <<self[index]>> \o uniqueFromKeepLast(self, index + 1)
         ELSE uniqueFromKeepLast(self, index + 1)

RECURSIVE uniqueFrom(_, _)
uniqueFrom(self, index) ==
  IF index > Len(self) THEN <<>>
  ELSE IF index = findIndex(self, self[index].id)
         THEN <<self[index]>> \o uniqueFrom(self, index + 1)
         ELSE uniqueFrom(self, index + 1)

\* Lines 312-316: the duplicates removed, then slice(0, 30).
uniqueTracks(allTracks) ==
  LET unique == uniqueFrom(allTracks, 1)
  IN  SubSeq(unique, 1, Min(MaxPreview, Len(unique)))

\* The locals of an invocation that has not run a statement yet.
NewTask(op, moodAnalysis) ==
  [ op |-> op, pc |-> "start", moodAnalysis |-> moodAnalysis,
    availableGenres |-> {}, filteredGenres |-> <<>>, targetFeatures |-> JsUndefined,
    recommendedTracks |-> <<>>, scoredTracks |-> <<>>, selectedTracks |-> <<>>,
    playlist |-> JsUndefined,
    searchQueries |-> <<>>, allTracks |-> <<>>,
    calls |-> <<>>, caught |-> Absent, outcome |-> NoResult ]

\* The invocation throws: generatePlaylist's catch block replaces the error,
\* searchByMoodKeywords has none around its lookup.
TaskThrows(task, error) ==
  [ task EXCEPT !.pc = "threw", !.caught = error,
                !.outcome = [ kind |-> "thrown",
                              message |-> IF task.op = "generatePlaylist"
                                            THEN catchGenerate(error) ELSE error ] ]

TaskCalls(task, op, args) ==
  [ task EXCEPT !.pc = op,
                !.calls = Append(IF task.calls = <<>> THEN <<>> ELSE Settle(task.calls, "returned"),
                                 Call(op, args)) ]

\* What the invocations leave alone: the state of the single request.
single ==
  << pc, req, genresResponse, filteredGenres, targetFeatures, targetCount, recommendedTracks,
     featuresResponse, audioFeatures, scoredTracks, selectedTracks, playlist, calls, spotify,
     caught, result, response, metadata, mood >>

(* generatePlaylist is invoked: playlistService.ts 76-84.                   *)
InvokeGenerate(moodAnalysis) ==
  /\ Len(tasks) < MaxInvocations
  /\ LET task == NewTask("generatePlaylist", moodAnalysis)
         profile == lookupProfile(table, moodAnalysis.primaryEmotion)
     IN  tasks' = Append(tasks,
                         IF ~Truthy(profile) THEN TaskThrows(task, "Unknown mood")
                         ELSE TaskCalls(task, "getAvailableGenres", <<>>))
  /\ UNCHANGED <<table, single>>

\* generatePlaylist pushing the default genre onto the profile's own genre list.
TaskGenresReturnPushProfile(t, reply, draws) ==
  /\ t \in 1 .. Len(tasks)
  /\ tasks[t].pc = "getAvailableGenres"
  /\ LET task == [tasks[t] EXCEPT !.availableGenres = getAvailableGenres(reply)]
         key == task.moodAnalysis.primaryEmotion
         profile == lookupProfile(table, key)
     IN  IF "genres" \notin DOMAIN profile
           THEN /\ tasks' = [tasks EXCEPT ![t] =
                               TaskThrows([task EXCEPT !.calls = Settle(@, "returned")],
                                          "TypeError")]
                /\ UNCHANGED table
           ELSE LET matching == SelectSeq(profile.genres,
                                          LAMBDA genre : genre \in task.availableGenres)
                    pushed == Append(profile.genres, "pop")
                    genres == IF Len(matching) = 0 THEN pushed
                              ELSE SubSeq(matching, 1, Min(MaxGenres, Len(matching)))
                    targets == calculateTargetFeatures(profile.audioFeatures,
                                                       task.moodAnalysis.confidence, draws)
                IN  /\ tasks' = [tasks EXCEPT ![t] =
                                   TaskCalls([task EXCEPT !.filteredGenres = genres,
                                                          !.targetFeatures = targets],
                                             "getRecommendations", <<genres, targets, PoolSize>>)]
                    /\ table' = IF Len(matching) = 0
                                  THEN [table EXCEPT ![key].genres = pushed] ELSE table
  /\ UNCHANGED single

(* getAvailableGenres returns to the invocation: lines 84-106.              *)
TaskGenresReturn(t, reply, draws) ==
  /\ t \in 1 .. Len(tasks)
  /\ tasks[t].pc = "getAvailableGenres"
  /\ LET task == [tasks[t] EXCEPT !.availableGenres = getAvailableGenres(reply)]
         profile == lookupProfile(table, task.moodAnalysis.primaryEmotion)
     IN  IF "genres" \notin DOMAIN profile
           THEN tasks' = [tasks EXCEPT ![t] =
                            TaskThrows([task EXCEPT !.calls = Settle(@, "returned")],
                                       "TypeError")]
           ELSE LET genres == filterGenres(profile.genres, task.availableGenres)
                    targets == calculateTargetFeatures(profile.audioFeatures,
                                                       task.moodAnalysis.confidence, draws)
                IN  tasks' = [tasks EXCEPT ![t] =
                                TaskCalls([task EXCEPT !.filteredGenres = genres,
                                                       !.targetFeatures = targets],
                                          "getRecommendations", <<genres, targets, PoolSize>>)]
  /\ UNCHANGED <<table, single>>

(* getRecommendations returns or throws: lines 101-114 and 173-185.         *)
TaskRecommendationsReturn(t, reply) ==
  /\ t \in 1 .. Len(tasks)
  /\ tasks[t].pc = "getRecommendations"
  /\ LET task == tasks[t]
     IN  tasks' =
           [tasks EXCEPT ![t] =
              IF ~reply.ok
                THEN TaskThrows([task EXCEPT !.calls = Settle(@, "threw")],
                                "Failed to get recommendations")
              ELSE IF noTracks(reply.tracks)
                THEN TaskThrows([task EXCEPT !.calls = Settle(@, "returned"),
                                             !.recommendedTracks = reply.tracks],
                                "No tracks found for the given mood")
              ELSE TaskCalls([task EXCEPT !.recommendedTracks = reply.tracks],
                             "getAudioFeatures", <<reply.tracks>>)]
  /\ UNCHANGED <<table, single>>

(* getAudioFeatures returns or throws: lines 185-203 and 116-127.           *)
TaskAudioFeaturesReturn(t, reply, shuffleDraws, nameDraw) ==
  /\ t \in 1 .. Len(tasks)
  /\ tasks[t].pc = "getAudioFeatures"
  /\ LET task == tasks[t]
         features == getAudioFeatures(reply.audio_features)
         scored == scoreTracks(task.recommendedTracks, features, task.targetFeatures)
         selected == selectTracks(scored, PlaylistLength, shuffleDraws)
     IN  tasks' =
           [tasks EXCEPT ![t] =
              IF ~reply.ok
                THEN TaskThrows([task EXCEPT !.calls = Settle(@, "threw")],
                                "Failed to get audio features")
              ELSE TaskCalls([task EXCEPT !.scoredTracks = scored,
                                          !.selectedTracks = selected],
                             "createPlaylist",
                             << generatePlaylistName(task.moodAnalysis, nameDraw),
                                generatePlaylistDescription(task.moodAnalysis), FALSE >>)]
  /\ UNCHANGED <<table, single>>

(* createPlaylist returns or throws: lines 121-135.                         *)
TaskCreatePlaylistReturn(t, ok) ==
  /\ t \in 1 .. Len(tasks)
  /\ tasks[t].pc = "createPlaylist"
  /\ LET task == tasks[t]
         args == task.calls[Len(task.calls)].args
         created == [id |-> t, name |-> args[1], description |-> args[2]]
         trackUris == [k \in 1 .. Len(task.selectedTracks) |-> trackUri(task.selectedTracks[k])]
     IN  tasks' =
           [tasks EXCEPT ![t] =
              IF ~ok
                THEN TaskThrows([task EXCEPT !.calls = Settle(@, "threw")],
                                "Failed to create playlist")
              ELSE TaskCalls([task EXCEPT !.playlist = created],
                             "addTracksToPlaylist", <<created.id, trackUris>>)]
  /\ UNCHANGED <<table, single>>

(* addTracksToPlaylist returns or throws: lines 131-147.                    *)
TaskAddTracksReturn(t, ok) ==
  /\ t \in 1 .. Len(tasks)
  /\ tasks[t].pc = "addTracksToPlaylist"
  /\ LET task == tasks[t]
     IN  tasks' =
           [tasks EXCEPT ![t] =
              IF ~ok
                THEN TaskThrows([task EXCEPT !.calls = Settle(@, "threw")],
                                "Failed to add tracks to playlist")
              ELSE [task EXCEPT !.calls = Settle(@, "returned"),
                                !.pc = "returned",
                                !.outcome =
                                  [ kind |-> "returned",
                                    value |-> [ id |-> task.playlist.id,
                                                name |-> task.playlist.name,
                                                description |-> task.playlist.description,
                                                tracks |-> task.selectedTracks ] ]]]
  /\ UNCHANGED <<table, single>>

(* searchByMoodKeywords is invoked: lines 287-304, up to its first await.   *)
InvokeSearch(moodAnalysis) ==
  /\ Len(tasks) < MaxInvocations
  /\ LET task == NewTask("searchByMoodKeywords", moodAnalysis)
         profile == lookupProfile(table, moodAnalysis.primaryEmotion)
     IN  tasks' =
           Append(tasks,
                  IF ~Truthy(profile)
                    THEN [task EXCEPT !.pc = "returned",
                                      !.outcome = [kind |-> "returned", value |-> <<>>]]
                  ELSE IF "keywords" \notin DOMAIN profile
                    THEN \* ...profile.keywords spreads undefined
                         TaskThrows(task, "TypeError")
                  ELSE LET queries == searchQueries(profile, moodAnalysis.primaryEmotion)
                       IN  TaskCalls([task EXCEPT !.searchQueries = queries],
                                     "searchTracks", <<searchText(queries[1]), SearchLimit>>))
  /\ UNCHANGED <<table, single>>

(* searchTracks returns or throws: lines 298-316, the rest of one iteration *)
(* and either the next search or the end of the method.                     *)
SearchTracksReturn(t, reply) ==
  /\ t \in 1 .. Len(tasks)
  /\ tasks[t].pc = "searchTracks"
  /\ LET task == tasks[t]
         done == Len(task.calls)
         allTracks == IF reply.ok THEN task.allTracks \o reply.tracks ELSE task.allTracks
         settled == [task EXCEPT !.allTracks = allTracks,
                                 !.calls = Settle(@, IF reply.ok THEN "returned" ELSE "threw")]
     IN  tasks' =
           [tasks EXCEPT ![t] =
              IF done < Len(task.searchQueries)
                THEN [settled EXCEPT
                        !.calls = Append(@, Call("searchTracks",
                                                 << searchText(task.searchQueries[done + 1]),
                                                    SearchLimit >>))]
                ELSE [settled EXCEPT
                        !.pc = "returned",
                        !.outcome = [kind |-> "returned", value |-> uniqueTracks(allTracks)]]]
  /\ UNCHANGED <<table, single>>

----------------------------------------------------------------------------
(* SpecSearch: one searchByMoodKeywords, for a profile with five keywords,  *)
(* the profile with four, a word without a profile and a name that          *)
(* Object.prototype defines; each search fails, finds nothing or returns    *)
(* ten tracks, with ids that overlap between searches.                      *)

PreviewAnalyses ==
  [ primaryEmotion : {"happy", "anxious", "furious", "constructor"},
    emotions : {EmotionScores}, confidence : {10}, rawText : {21} ]

\* A track of a search result: its id and the query that found it.
SearchResult(query, first) ==
  [k \in 1 .. SearchLimit |-> [id |-> first + k - 1, query |-> query]]

SearchReplies(query) ==
  {[ok |-> FALSE, tracks |-> <<>>], [ok |-> TRUE, tracks |-> <<>>]}
    \cup {[ok |-> TRUE, tracks |-> SearchResult(query, first)] : first \in {1, 6, 16, 26}}

PreviewRequest == tasks = <<>> /\ \E moodAnalysis \in PreviewAnalyses : InvokeSearch(moodAnalysis)

SearchArrives ==
  \E t \in 1 .. Len(tasks) :
    /\ tasks[t].pc = "searchTracks"
    /\ \E reply \in SearchReplies(tasks[t].searchQueries[Len(tasks[t].calls)]) :
         SearchTracksReturn(t, reply)

NextSearch == PreviewRequest \/ SearchArrives

SpecSearch == Init /\ [][NextSearch]_vars

----------------------------------------------------------------------------
(* SpecShared: up to MaxInvocations invocations of generatePlaylist and     *)
(* searchByMoodKeywords on the shared instance, interleaved at every await. *)

SharedAnalyses ==
  [ primaryEmotion : {"calm", "constructor"},
    emotions : {EmotionScores}, confidence : {5}, rawText : {21} ]

SharedGenerate == \E moodAnalysis \in SharedAnalyses : InvokeGenerate(moodAnalysis)

SharedSearch == \E moodAnalysis \in SharedAnalyses : InvokeSearch(moodAnalysis)

\* The genre fetch fails or returns a list with one genre of 'calm'; every
\* draw of these invocations is 0.
SharedGenresArrive ==
  \E t \in 1 .. Len(tasks),
     reply \in {GenreFailure, GenreReply({"pop", "dance", "classical"})} :
    TaskGenresReturn(t, reply, [f \in FeatureNames |-> 0])

\* The recommendation fetch fails, finds nothing or returns track 1.
SharedRecommendationsArrive ==
  \E t \in 1 .. Len(tasks),
     reply \in { [ok |-> FALSE, tracks |-> <<>>], [ok |-> TRUE, tracks |-> <<>>],
                 [ok |-> TRUE, tracks |-> <<1>>] } :
    TaskRecommendationsReturn(t, reply)

SharedAudioFeaturesArrive ==
  \E t \in 1 .. Len(tasks) :
    /\ tasks[t].pc = "getAudioFeatures"
    /\ \E reply \in AudioFeatureReplies(tasks[t].recommendedTracks) :
         TaskAudioFeaturesReturn(t, reply, <<>>, 0)

SharedCreatePlaylistEnds ==
  \E t \in 1 .. Len(tasks), ok \in BOOLEAN : TaskCreatePlaylistReturn(t, ok)

SharedAddTracksEnds ==
  \E t \in 1 .. Len(tasks), ok \in BOOLEAN : TaskAddTracksReturn(t, ok)

\* Each search of these invocations returns the one track named after its query.
SharedSearchArrives ==
  \E t \in 1 .. Len(tasks) :
    /\ tasks[t].pc = "searchTracks"
    /\ SearchTracksReturn(t, [ ok |-> TRUE,
                               tracks |-> << [ id |-> Len(tasks[t].calls),
                                               query |-> tasks[t].searchQueries[Len(tasks[t].calls)] ] >> ])

NextShared ==
  \/ SharedGenerate
  \/ SharedSearch
  \/ SharedGenresArrive
  \/ SharedRecommendationsArrive
  \/ SharedAudioFeaturesArrive
  \/ SharedCreatePlaylistEnds
  \/ SharedAddTracksEnds
  \/ SharedSearchArrives

SpecShared == Init /\ [][NextShared]_vars

----------------------------------------------------------------------------
(* SpecNames: generatePlaylistName and generatePlaylistDescription applied  *)
(* to a mood analysis, as in playlistService.ts 117-118, for every          *)
(* primaryEmotion a caller may pass, texts up to and beyond the quoted 100  *)
(* characters and every draw of the name.                                   *)

NamedAnalyses ==
  [ primaryEmotion : EmotionKeys \ {""}, emotions : {EmotionScores},
    confidence : 0 .. 10, rawText : {21, QuoteLength, QuoteLength + 1} ]

\* Lines 117-118.
GenerateMetadata(moodAnalysis, r) ==
  /\ metadata' = [ moodAnalysis |-> moodAnalysis,
                   playlistName |-> generatePlaylistName(moodAnalysis, r),
                   playlistDescription |-> generatePlaylistDescription(moodAnalysis) ]
  /\ UNCHANGED <<pc, req, locals, calls, spotify, caught, result, response, table, tasks, mood>>

NextNames == \E moodAnalysis \in NamedAnalyses, r \in RandomDraws : GenerateMetadata(moodAnalysis, r)

SpecNames == Init /\ [][NextNames]_vars

----------------------------------------------------------------------------
(* MoodService.analyzeMood, src/src/services/moodService.ts.                *)
(*                                                                          *)
(* A text is modelled by the keywords it contains once lower-cased: a       *)
(* record [words |-> set].  A number is a record [type |-> "number", num,   *)
(* den] standing for num / den; a JSON value of another type carries its    *)
(* type only.                                                               *)

\* The most keywords of the vocabulary in one text.
MaxWords == 5

Number(num, den) == [type |-> "number", num |-> num, den |-> den]

\* requiredEmotions, line 77, which is also the key order of scores, lines 113-120.
requiredEmotions == <<"happy", "sad", "energetic", "calm", "anxious", "nostalgic">>

\* The word lists of getFallbackMoodAnalysis, lines 106-111.
fallbackWords ==
  [ happy |-> <<"happy", "joy", "excited", "great", "awesome", "love", "wonderful">>,
    sad |-> <<"sad", "down", "depressed", "upset", "hurt", "cry", "lonely">>,
    energetic |-> <<"energetic", "pump", "dance", "party", "active", "workout">>,
    calm |-> <<"calm", "peaceful", "relax", "quiet", "meditate", "serene">>,
    anxious |-> <<"anxious", "worried", "stress", "nervous", "panic", "fear">>,
    nostalgic |-> <<"remember", "past", "nostalgic", "memories", "old", "miss">> ]

\* countKeywords, lines 145-147.
countKeywords(text, keywords) ==
  Cardinality({k \in 1 .. Len(keywords) : keywords[k] \in text.words})

\* The sign of a - b for two numbers.
CompareNumbers(a, b) == a.num * b.den - b.num * a.den

\* validateMoodAnalysis, lines 76-100: the message of the error it throws, or
\* "valid".  Reading a property of null throws a TypeError.
\* The validation accepting any non-empty primaryEmotion.
validateMoodAnalysisAnyEmotion(data) ==
  LET invalid(e) == \/ data.emotions[e].type # "number"
                    \/ data.emotions[e].num < 0
                    \/ data.emotions[e].num > data.emotions[e].den
  IN  IF data = JsNull THEN "TypeError"
      ELSE IF data.primaryEmotion = "" THEN "Invalid primaryEmotion"
      ELSE IF data.emotions = JsUndefined THEN "Invalid emotions object"
      ELSE IF \E k \in 1 .. Len(requiredEmotions) : invalid(requiredEmotions[k])
        THEN "Invalid emotion score"
      ELSE IF \/ data.confidence.type # "number"
              \/ data.confidence.num < 0
              \/ data.confidence.num > data.confidence.den
        THEN "Invalid confidence score"
      ELSE "valid"

validateMoodAnalysis(data) ==
  LET invalid(e) == \/ data.emotions[e].type # "number"
                    \/ data.emotions[e].num < 0
                    \/ data.emotions[e].num > data.emotions[e].den
  IN  IF data = JsNull THEN "TypeError"
      ELSE IF data.primaryEmotion = "" \/ data.primaryEmotion \notin SeqRange(requiredEmotions)
        THEN "Invalid primaryEmotion"
      ELSE IF data.emotions = JsUndefined THEN "Invalid emotions object"
      ELSE IF \E k \in 1 .. Len(requiredEmotions) : invalid(requiredEmotions[k])
        THEN "Invalid emotion score"
      ELSE IF \/ data.confidence.type # "number"
              \/ data.confidence.num < 0
              \/ data.confidence.num > data.confidence.den
        THEN "Invalid confidence score"
      ELSE "valid"

\* Object.entries(scores).reduce((a, b) => scores[a[0]] > scores[b[0]] ? a : b)[0],
\* lines 133-135, over the keys from position k on, a being the entry held.
RECURSIVE reducePrimary(_, _, _)
reducePrimary(scores, a, k) ==
  IF k > Len(requiredEmotions) THEN a
  ELSE LET b == requiredEmotions[k]
       IN  reducePrimary(scores, IF CompareNumbers(scores[a], scores[b]) > 0 THEN a ELSE b,
                         k + 1)

\* getFallbackMoodAnalysis, lines 102-143.  The scores count / length are kept
\* over the common denominator of the list lengths; total is their sum.
getFallbackMoodAnalysis(text) ==
  LET unit == Len(fallbackWords.happy) * Len(fallbackWords.calm)
      raw == [ e \in DOMAIN fallbackWords |->
                 countKeywords(text, fallbackWords[e]) * (unit \div Len(fallbackWords[e])) ]
      total == raw.happy + raw.sad + raw.energetic + raw.calm + raw.anxious + raw.nostalgic
      scores == IF total > 0
                  THEN [e \in DOMAIN fallbackWords |-> Number(raw[e], total)]
                  ELSE [e \in DOMAIN fallbackWords |->
                          IF e = "calm" THEN Number(1, 1) ELSE Number(0, 1)]
  IN  [ primaryEmotion |-> reducePrimary(scores, requiredEmotions[1], 2),
        emotions |-> scores,
        confidence |-> IF total > 0
                         THEN IF total * 10 <= 8 * unit THEN Number(total, unit)
                              ELSE Number(8, 10)
                         ELSE Number(3, 10),
        rawText |-> text ]

\* { ...moodData, rawText: text }, lines 64-67.
withRawText(moodData, text) ==
  [ primaryEmotion |-> moodData.primaryEmotion, emotions |-> moodData.emotions,
    confidence |-> moodData.confidence, rawText |-> text ]

\* What the single request and the invocations are to analyzeMood.
apart ==
  << pc, req, genresResponse, filteredGenres, targetFeatures, targetCount, recommendedTracks,
     featuresResponse, audioFeatures, scoredTracks, selectedTracks, playlist, calls, spotify,
     caught, result, response, table, tasks, metadata >>

(* analyzeMood is called: lines 9-51, up to the await of the classifier.    *)
AnalyzeMood(text) ==
  /\ mood = JsUndefined
  /\ mood' = [ pc |-> "openai.chat.completions.create", text |-> text, reply |-> JsUndefined,
               caught |-> Absent, outcome |-> NoResult ]
  /\ UNCHANGED apart

(* The classifier call returns or throws: lines 53-73.                      *)
ClassifierReturn(reply) ==
  /\ mood # JsUndefined
  /\ mood.pc = "openai.chat.completions.create"
  /\ LET error == IF reply.kind = "error" THEN "classifier call failed"
                  ELSE IF reply.kind = "empty" THEN "No response from OpenAI"
                  ELSE IF reply.kind = "unparsable" THEN "SyntaxError"
                  ELSE validateMoodAnalysis(reply.value)
     IN  mood' = [ mood EXCEPT
                     !.pc = "returned",
                     !.reply = reply,
                     !.caught = IF error = "valid" THEN Absent ELSE error,
                     !.outcome =
                       [ kind |-> "returned",
                         value |-> IF error = "valid" THEN withRawText(reply.value, mood.text)
                                   ELSE getFallbackMoodAnalysis(mood.text) ] ]
  /\ UNCHANGED apart

\* Words a text may contain: keywords of each list, five of them from the
\* lists of six, and a word that is on no list.
Vocabulary == {"happy", "joy", "sad", "pump", "calm", "worried", "old", "miss", "rain"}

Texts == {[words |-> w] : w \in {v \in SUBSET Vocabulary : Cardinality(v) <= MaxWords}}

\* The emotions object of a reply: scores summing to 1, scores on the bounds 0
\* and 1, a score above 1, a score below 0, a score that is a string.
ReplyEmotions ==
  LET even == [e \in DOMAIN fallbackWords |-> IF e = "happy" THEN Number(5, 10) ELSE Number(1, 10)]
  IN  { JsUndefined, even,
        [even EXCEPT !.sad = Number(0, 10), !.calm = Number(10, 10)],
        [even EXCEPT !.nostalgic = Number(11, 10)],
        [even EXCEPT !.happy = Number(-1, 10)],
        [even EXCEPT !.anxious = [type |-> "string"]] }

ReplyValues ==
  {JsNull}
    \cup [ primaryEmotion : {"happy", "furious", "constructor", ""},
           emotions : ReplyEmotions,
           confidence : { Number(9, 10), Number(0, 10), Number(11, 10), Number(-1, 10),
                          [type |-> "undefined"] },
           rawText : {JsUndefined, [words |-> {"rain"}]} ]

ClassifierReplies ==
  {[kind |-> "error"], [kind |-> "empty"], [kind |-> "unparsable"]}
    \cup {[kind |-> "json", value |-> value] : value \in ReplyValues}

MoodRequest == \E text \in Texts : AnalyzeMood(text)

ClassifierEnds == \E reply \in ClassifierReplies : ClassifierReturn(reply)

NextMood == MoodRequest \/ ClassifierEnds

SpecMood == Init /\ [][NextMood]_vars

----------------------------------------------------------------------------
(* The claims.                                                              *)

\* The order in which generatePlaylist calls its collaborators.
Chain ==
  << "getAvailableGenres", "getRecommendations", "getAudioFeatures", "createPlaylist",
     "addTracksToPlaylist" >>

\* The route has handed the request to generatePlaylist.
Accepted == pc # "idle" /\ response.status \notin {400, 401}

Failed == result.kind = "thrown"

SameScore(a, b) == CompareScore(a, b) = 0

\* C1: generatePlaylist with a primaryEmotion outside the six categories fails
\* without having made any call to a collaborator.
C1_UnknownMoodMakesNoCall ==
  (Accepted /\ req.moodAnalysis.primaryEmotion \notin Emotions)
    => (Failed /\ calls = <<>>)

\* C2: the score paired with the candidate at position i is computed from what
\* the catalog answered for that same track: 0 for null, score(features of i,
\* targets) otherwise.
C2_ScoreOfOwnFeatures ==
  pc = "selected" =>
    \A i \in 1 .. Len(recommendedTracks) :
      LET own == featuresResponse.audio_features[i]
      IN  /\ scoredTracks[i].track = recommendedTracks[i]
          /\ IF own = JsNull
               THEN SameScore(scoredTracks[i].score, ZeroScore)
               ELSE SameScore(scoredTracks[i].score,
                              calculateTrackScore(own, targetFeatures))

\* C3: when the recommendation call returns no candidate, generatePlaylist
\* fails having called only the genre fetch and the recommendation fetch: no
\* audio features fetched, nothing scored, no playlist created.
C3_EmptyPoolStops ==
  (Len(calls) >= 2 /\ calls[2].status = "returned" /\ recommendedTracks = <<>>)
    => /\ pc = "responded"
       /\ Failed
       /\ [k \in 1 .. Len(calls) |-> calls[k].op] = SubSeq(Chain, 1, 2)
       /\ featuresResponse = JsUndefined
       /\ scoredTracks = <<>>
       /\ selectedTracks = <<>>
       /\ spotify = <<>>

C3_Witness ==
  /\ Len(calls) = 2
  /\ calls[2].status = "returned"
  /\ recommendedTracks = <<>>
  /\ Failed

\* C4: for n >= 1 candidates and target count K, filterAndSelectTracks returns
\* min(K, n) distinct candidates, and every candidate left out scores no more
\* than every candidate returned, a tie going to the earlier candidate.
C4_SelectsBest ==
  pc = "selected" =>
    LET n == Len(recommendedTracks)
        kept == SeqRange(selectedTracks)
    IN  /\ Len(selectedTracks) = Min(targetCount, n)
        /\ \A k, l \in 1 .. Len(selectedTracks) :
             selectedTracks[k] = selectedTracks[l] => k = l
        /\ kept \subseteq SeqRange(recommendedTracks)
        /\ \A i, j \in 1 .. n :
             (recommendedTracks[i] \in kept /\ recommendedTracks[j] \notin kept)
               => /\ CompareScore(scoredTracks[j].score, scoredTracks[i].score) <= 0
                  /\ SameScore(scoredTracks[j].score, scoredTracks[i].score) => i < j

\* A tie between a candidate that is kept and one that is left out, and a
\* result that is not in the order of the sort.
C4_Witness ==
  /\ pc = "selected"
  /\ Len(selectedTracks) = 2
  /\ \E i, j \in 1 .. Len(recommendedTracks) :
       /\ recommendedTracks[i] \in SeqRange(selectedTracks)
       /\ recommendedTracks[j] \notin SeqRange(selectedTracks)
       /\ SameScore(scoredTracks[j].score, scoredTracks[i].score)
       /\ scoredTracks[i].score.num > 0
  /\ takeBest(sortByScore(scoredTracks), targetCount) # selectedTracks

\* C5: the collaborators are called in the order genre fetch, recommendation
\* fetch, audio-feature fetch, playlist create, track-add, each call after the
\* one before has returned, and a successful run has made each call once.
C5_CallsInOrder ==
  /\ Len(calls) <= Len(Chain)
  /\ \A k \in 1 .. Len(calls) : calls[k].op = Chain[k]
  /\ \A k \in 1 .. Len(calls) - 1 : calls[k].status = "returned"
  /\ result.kind = "returned"
       => (Len(calls) = Len(Chain) /\ calls[Len(calls)].status = "returned")

C5_Witness == result.kind = "returned" /\ Len(selectedTracks) = MaxTracks

\* C6: when the track-add call fails after the playlist was created,
\* generatePlaylist fails, makes no further call, and the playlist stays on
\* the external service, empty.
C6_NoCompensation ==
  \A k \in 1 .. Len(calls) :
    (calls[k].op = "addTracksToPlaylist" /\ calls[k].status = "threw")
      => /\ k = Len(calls)
         /\ calls[k - 1].op = "createPlaylist" /\ calls[k - 1].status = "returned"
         /\ Cardinality({m \in 1 .. Len(calls) : calls[m].op = "createPlaylist"}) = 1
         /\ pc = "responded"
         /\ Failed
         /\ response.data = JsUndefined
         /\ Len(spotify) = 1
         /\ spotify[playlist.id].tracks = <<>>

C6_Witness ==
  /\ Len(calls) = Len(Chain)
  /\ calls[Len(calls)].status = "threw"
  /\ selectedTracks # <<>>

\* C7: whatever made generatePlaylist fail, the caller gets the same failure,
\* 'Failed to generate playlist'.
C7_GenericFailure ==
  (caught # Absent \/ Failed)
    => /\ Failed
       /\ result.message = "Failed to generate playlist"
       /\ response.status = 500
       /\ response.success = FALSE
       /\ response.error = "Failed to generate playlist"
       /\ response.message = "Failed to generate playlist"
       /\ response.data = JsUndefined

C7_Witness == Failed /\ caught = "Failed to create playlist"

\* C8: the genres passed to the recommendation call are the profile's genres
\* found in the fetched list, in profile order, at most the first three; they
\* are ['pop'] when none is found or the fetch failed; for 'happy' and
\* {pop, dance, classical} they are ['pop', 'dance'].
C8_SeedGenres ==
  pc = "getRecommendations" =>
    LET key == req.moodAnalysis.primaryEmotion
        genres == moodProfiles[key].genres
        available == IF genresResponse.ok THEN genresResponse.genres ELSE {}
        matching == {k \in 1 .. Len(genres) : genres[k] \in available}
        passed == calls[Len(calls)].args[1]
    IN  /\ calls[Len(calls)].op = "getRecommendations"
        /\ Len(passed) \in 1 .. 3
        /\ IF matching = {}
             THEN passed = <<"pop">>
             ELSE /\ Len(passed) = Min(3, Cardinality(matching))
                  /\ \A i \in 1 .. Len(passed) :
                       \E k \in matching :
                         /\ genres[k] = passed[i]
                         /\ Cardinality({m \in matching : m < k}) = i - 1
        /\ (key = "happy" /\ genresResponse = GenreReply({"pop", "dance", "classical"}))
             => passed = <<"pop", "dance">>

C8_Witness ==
  /\ pc = "getRecommendations"
  /\ req.moodAnalysis.primaryEmotion = "happy"
  /\ genresResponse = GenreReply({"pop", "dance", "classical"})
  /\ filteredGenres = <<"pop", "dance">>

\* C9: for each profile, every confidence and every draw, each target lies
\* in the profile's [min, max] range of its feature.
C9_TargetsInRange ==
  pc = "getRecommendations" =>
    \A f \in FeatureNames :
      LET range == moodProfiles[req.moodAnalysis.primaryEmotion].audioFeatures[f]
      IN  /\ range.min * TargetDen <= targetFeatures[f]
          /\ targetFeatures[f] <= range.max * TargetDen

\* A low confidence whose draws put a target below the midpoint of its range.
C9_Witness ==
  /\ pc = "getRecommendations"
  /\ req.moodAnalysis.confidence < StrictnessFloor
  /\ LET range == moodProfiles[req.moodAnalysis.primaryEmotion].audioFeatures.tempo
     IN  2 * targetFeatures.tempo < (range.min + range.max) * TargetDen

\* C10: at confidence 1.0 every target is the midpoint of its range whatever
\* the draws; for 'happy' they are 0.8, 0.8, 0.75 and 140.
C10_FullConfidenceMidpoint ==
  (pc = "getRecommendations" /\ req.moodAnalysis.confidence = 10) =>
    /\ \A f \in FeatureNames :
         LET range == moodProfiles[req.moodAnalysis.primaryEmotion].audioFeatures[f]
         IN  2 * targetFeatures[f] = (range.min + range.max) * TargetDen
    /\ req.moodAnalysis.primaryEmotion = "happy"
         => /\ targetFeatures.energy = 8 * TargetDen
            /\ targetFeatures.valence = 8 * TargetDen
            /\ 2 * targetFeatures.danceability = 15 * TargetDen
            /\ targetFeatures.tempo = 140 * TargetDen

C10_Witness ==
  /\ pc = "getRecommendations"
  /\ req.moodAnalysis.confidence = 10
  /\ req.moodAnalysis.primaryEmotion = "happy"
  /\ targetFeatures.tempo = 140 * TargetDen

\* The features the catalog answered for the one candidate of SpecScore, and
\* the score paired with it.
Scored == pc = "selected" /\ featuresResponse.audio_features[1] # JsNull
Actual == featuresResponse.audio_features[1]
Score == scoredTracks[1].score

\* Score = n / d, with the denominators of the model cleared.
ScoreIs(n, d) == Score.num * d = n * Score.den * ScoreDen(targetFeatures)

OnTarget(f) == Actual[f] * TargetDen = targetFeatures[f]

\* The per-feature score of the claims, as a number over ScoreDen(targetFeatures):
\* max(0, 1 - |actual - target|) for a feature on the [0, 1] scale, which the
\* model keeps in tenths, and max(0, 1 - |actual - target| / target) for tempo.
ClaimedFeatureScore(f) ==
  LET distance == Abs(Actual[f] * TargetDen - targetFeatures[f])
  IN  IF f = "tempo"
        THEN Max(0, targetFeatures.tempo - distance)
               * (ScoreDen(targetFeatures) \div targetFeatures.tempo)
        ELSE Max(0, 10 * TargetDen - distance)
               * (ScoreDen(targetFeatures) \div (10 * TargetDen))

\* C11: with all four features present the score is 0.3 energy + 0.3 valence
\* + 0.2 danceability + 0.2 tempo of the per-feature scores; it is 1.0 when
\* the track is on target in all four, and 0.8 when it is on target in energy,
\* valence and danceability and its tempo is at least twice the target tempo.
C11_WeightedAverage ==
  (Scored /\ DOMAIN Actual = FeatureNames /\ DOMAIN targetFeatures = FeatureNames) =>
    /\ Score.num * 10
         = ( 3 * ClaimedFeatureScore("energy") + 3 * ClaimedFeatureScore("valence")
              + 2 * ClaimedFeatureScore("danceability") + 2 * ClaimedFeatureScore("tempo") )
             * Score.den
    /\ (\A f \in FeatureNames : OnTarget(f)) => ScoreIs(1, 1)
    /\ ( /\ \A f \in FeatureNames \ {"tempo"} : OnTarget(f)
         /\ Actual.tempo * TargetDen >= 2 * targetFeatures.tempo ) => ScoreIs(8, 10)

\* A track on target in all four features, at a confidence below 1.0.
C11_Witness ==
  /\ Scored
  /\ DOMAIN Actual = FeatureNames /\ DOMAIN targetFeatures = FeatureNames
  /\ \A f \in FeatureNames : OnTarget(f)
  /\ targetFeatures.tempo = 70 * TargetDen
  /\ ScoreIs(1, 1)

\* C12: every score paired with a candidate is at least 0 and at most 1, for
\* the targets of a profile and whatever the catalog answered for the track.
C12_ScoreInUnitInterval ==
  (pc = "selected" /\ DOMAIN targetFeatures = FeatureNames) =>
    \A i \in 1 .. Len(scoredTracks) :
      /\ scoredTracks[i].score.den > 0
      /\ scoredTracks[i].score.num >= 0
      /\ scoredTracks[i].score.num <= scoredTracks[i].score.den * ScoreDen(targetFeatures)

\* A track with energy at -0.5, valence at 2.5, a tempo of 0 and no
\* danceability, scored against the targets of a profile.
C12_Witness ==
  /\ Scored
  /\ DOMAIN targetFeatures = FeatureNames
  /\ DOMAIN Actual = {"energy", "valence", "tempo"}
  /\ Actual.energy = -5 /\ Actual.valence = 25 /\ Actual.tempo = 0

\* C13: the score is the weighted average over the features present in both
\* the track's features and the targets; a track with only its energy present
\* and on target scores 1.0; with no feature present on both sides the score
\* is 0; and scoring raises no error.
C13_MissingFeaturesLeftOut ==
  /\ (featuresResponse # JsUndefined /\ featuresResponse.ok) => pc = "selected"
  /\ Scored =>
       LET present == DOMAIN Actual \cap DOMAIN targetFeatures
           Term(f) == IF f \in present THEN weights[f] * ClaimedFeatureScore(f) ELSE 0
           Weight(f) == IF f \in present THEN weights[f] ELSE 0
           sum == Term("energy") + Term("valence") + Term("danceability") + Term("tempo")
           total == Weight("energy") + Weight("valence") + Weight("danceability")
                      + Weight("tempo")
       IN  /\ present = {} => ScoreIs(0, 1)
           /\ present # {} => Score.num * total = sum * Score.den
           /\ (DOMAIN Actual = {"energy"} /\ "energy" \in present /\ OnTarget("energy"))
                 => ScoreIs(1, 1)

\* A track with nothing but its energy, which is on target.
C13_Witness ==
  /\ Scored
  /\ DOMAIN Actual = {"energy"}
  /\ DOMAIN targetFeatures = FeatureNames
  /\ OnTarget("energy")
  /\ ScoreIs(1, 1)

\* C14: whatever invocations run on the instance and however they interleave,
\* the profile table stays what it was at construction ('pop' is never added
\* to a profile's genres), and two invocations given the same inputs get the
\* same genres, queries and targets whichever ran first.
C14_ProfilesNeverModified ==
  /\ table = moodProfiles
  /\ \A key \in Emotions \ {"happy"} : "pop" \notin SeqRange(table[key].genres)
  /\ \A t, u \in 1 .. Len(tasks) :
       ( /\ tasks[t].op = tasks[u].op
         /\ tasks[t].moodAnalysis = tasks[u].moodAnalysis
         /\ tasks[t].availableGenres = tasks[u].availableGenres
         /\ tasks[t].filteredGenres # <<>>
         /\ tasks[u].filteredGenres # <<>> )
         => tasks[t].filteredGenres = tasks[u].filteredGenres
  /\ \A t \in 1 .. Len(tasks) :
       tasks[t].targetFeatures # JsUndefined =>
         LET features == moodProfiles[tasks[t].moodAnalysis.primaryEmotion].audioFeatures
             confidence == tasks[t].moodAnalysis.confidence
         IN  \A f \in FeatureNames :
               \E r \in RandomDraws :
                 tasks[t].targetFeatures[f]
                   = calculateTargetFeatures(features, confidence,
                                             [g \in FeatureNames |-> r])[f]
  /\ \A t, u \in 1 .. Len(tasks) :
       ( /\ tasks[t].op = "searchByMoodKeywords" /\ tasks[u].op = "searchByMoodKeywords"
         /\ tasks[t].moodAnalysis = tasks[u].moodAnalysis )
         => tasks[t].searchQueries = tasks[u].searchQueries

\* Two generatePlaylist invocations for 'calm' in flight, both having taken
\* the default genre, the second having overtaken the first.
C14_Witness ==
  /\ Len(tasks) = 2
  /\ tasks[1].op = "generatePlaylist" /\ tasks[2].op = "generatePlaylist"
  /\ tasks[1].moodAnalysis.primaryEmotion = "calm"
  /\ tasks[2].moodAnalysis.primaryEmotion = "calm"
  /\ tasks[1].filteredGenres = <<"pop">> /\ tasks[2].filteredGenres = <<"pop">>
  /\ tasks[1].pc = "getRecommendations"
  /\ tasks[2].pc = "createPlaylist"

\* The positions in the concatenated search results of the first track of each id.
FirstOccurrences(allTracks) ==
  {i \in 1 .. Len(allTracks) : \A m \in 1 .. i - 1 : allTracks[m].id # allTracks[i].id}

\* C15: the list searchByMoodKeywords returns has no two tracks of one id, at
\* most 30 entries, and is the start of the concatenated search results with
\* every track but the first of its id left out.
C15_UniquePrefix ==
  \A t \in 1 .. Len(tasks) :
    (tasks[t].op = "searchByMoodKeywords" /\ tasks[t].outcome.kind = "returned") =>
      LET value == tasks[t].outcome.value
          firsts == FirstOccurrences(tasks[t].allTracks)
      IN  /\ \A i, j \in 1 .. Len(value) : value[i].id = value[j].id => i = j
          /\ Len(value) <= 30
          /\ Len(value) = Min(30, Cardinality(firsts))
          /\ \A k \in 1 .. Len(value) :
               \E i \in firsts :
                 /\ Cardinality({m \in firsts : m < i}) = k - 1
                 /\ value[k] = tasks[t].allTracks[i]

\* Searches that found 40 tracks of 35 ids, of which 30 are returned.
C15_Witness ==
  /\ Len(tasks) = 1
  /\ tasks[1].outcome.kind = "returned"
  /\ Len(tasks[1].allTracks) = 40
  /\ Cardinality(FirstOccurrences(tasks[1].allTracks)) = 35
  /\ Len(tasks[1].outcome.value) = 30
  /\ \E c \in 1 .. Len(tasks[1].calls) : tasks[1].calls[c].status = "threw"

\* C19: searchByMoodKeywords makes at most 5 searches, one after the other,
\* for the first five of keywords, genres, emotion name; a failed search is
\* skipped; for a known emotion it never fails and returns tracks of the
\* searches that succeeded; for a primaryEmotion without a profile it returns
\* an empty list having made no call.
C19_SearchesAndSkips ==
  \A t \in 1 .. Len(tasks) :
    tasks[t].op = "searchByMoodKeywords" =>
      LET task == tasks[t]
          key == task.moodAnalysis.primaryEmotion
      IN  /\ Len(task.calls) <= 5
          /\ \A c \in 1 .. Len(task.calls) - 1 : task.calls[c].status # "pending"
          /\ key \in Emotions =>
               LET all == moodProfiles[key].keywords \o moodProfiles[key].genres \o <<key>>
               IN  /\ \A c \in 1 .. Len(task.calls) :
                         /\ task.calls[c].op = "searchTracks"
                         /\ task.calls[c].args[1] = <<"genre:", all[c], " OR ", all[c]>>
                   /\ task.outcome.kind # "thrown"
                   /\ task.outcome.kind = "returned" =>
                        /\ Len(task.calls) = 5
                        /\ \A k \in 1 .. Len(task.outcome.value) :
                             \E c \in 1 .. 5 :
                               /\ task.calls[c].status = "returned"
                               /\ all[c] = task.outcome.value[k].query
                        /\ (\A c \in 1 .. 5 : task.calls[c].status = "threw")
                             => task.outcome.value = <<>>
          /\ key \notin Emotions =>
               /\ task.calls = <<>>
               /\ task.outcome = [kind |-> "returned", value |-> <<>>]

\* C16: for each of the six emotions the name is one of the emotion's five
\* templates followed by the date, and the description carries the emotion's
\* sentence; for every other primaryEmotion the name is 'Mixed Mood Music'
\* followed by the date and the description carries 'Curated tracks to match
\* your current mood.'.
C16_NamesAndDescriptions ==
  metadata # JsUndefined =>
    LET key == metadata.moodAnalysis.primaryEmotion
    IN  /\ metadata.playlistName.date = Today
        /\ key \in Emotions =>
             /\ Len(moodNames[key]) = 5
             /\ metadata.playlistName.name \in SeqRange(moodNames[key])
             /\ metadata.playlistDescription.mood = moodDescriptions[key]
        /\ key \notin Emotions =>
             /\ metadata.playlistName.name = "Mixed Mood Music"
             /\ metadata.playlistDescription.mood = "Curated tracks to match your current mood."

\* C17: when the recommendation fetch, the audio-feature fetch or the playlist
\* creation fails, that call is not made again and no later call is made, no
\* playlist exists on the external service and no tracks were added, and
\* generatePlaylist fails.
C17_FailureNotRetried ==
  \A k \in 1 .. Len(calls) :
    ( /\ calls[k].status = "threw"
      /\ calls[k].op \in {"getRecommendations", "getAudioFeatures", "createPlaylist"} )
      => /\ k = Len(calls)
         /\ Cardinality({m \in 1 .. Len(calls) : calls[m].op = calls[k].op}) = 1
         /\ \A m \in 1 .. Len(calls) : calls[m].op # "addTracksToPlaylist"
         /\ spotify = <<>>
         /\ playlist = JsUndefined
         /\ pc = "responded"
         /\ Failed
         /\ response.status = 500

\* The audio-feature fetch has failed, after recommendations were returned.
C17_Witness ==
  /\ Len(calls) = 3
  /\ calls[3].op = "getAudioFeatures"
  /\ calls[3].status = "threw"
  /\ recommendedTracks # <<>>
  /\ Failed

\* C18: every target is within 35% of the range width of the midpoint and
\* strictly inside the range, so that the clamp, which would have put it on
\* min or max, has not changed it; at a confidence of 0.3 or less the target
\* is one that confidence 0.3 gives: midpoint + (rand - 0.5) * 0.7 * width.
C18_SpreadAtMostThirtyFivePercent ==
  pc = "getRecommendations" =>
    \A f \in FeatureNames :
      LET range == moodProfiles[req.moodAnalysis.primaryEmotion].audioFeatures[f]
          width == range.max - range.min
          twiceOffset == 2 * targetFeatures[f] - (range.min + range.max) * TargetDen
      IN  /\ 100 * Abs(twiceOffset) <= 70 * width * TargetDen
          /\ range.min * TargetDen < targetFeatures[f]
          /\ targetFeatures[f] < range.max * TargetDen
          /\ req.moodAnalysis.confidence <= 3 =>
               \E r \in RandomDraws : twiceOffset = 2 * (2 * r - RandRes) * 7 * width

\* Confidence 0 and a draw of 0: the energy target is 35% of the width below
\* the midpoint.
C18_Witness ==
  /\ pc = "getRecommendations"
  /\ req.moodAnalysis.confidence = 0
  /\ LET range == moodProfiles[req.moodAnalysis.primaryEmotion].audioFeatures.energy
     IN  100 * ((range.min + range.max) * TargetDen - 2 * targetFeatures.energy)
           = 70 * (range.max - range.min) * TargetDen

InUnitInterval(number) ==
  number.type = "number" /\ number.den > 0 /\ 0 <= number.num /\ number.num <= number.den

\* The keywords of the six lists.
AllKeywords == UNION {SeqRange(fallbackWords[e]) : e \in DOMAIN fallbackWords}

\* C20: whatever the classifier call does, analyzeMood returns a mood analysis
\* with one of the six emotions as primaryEmotion, six scores and a confidence
\* in [0,1], and the input text as rawText; on the fallback path no emotion
\* scores more than the primaryEmotion, and a text without keywords gives
\* 'calm' with confidence 0.3.
C20_AnalyzeMoodNeverFails ==
  (mood # JsUndefined /\ mood.reply # JsUndefined) =>
    /\ mood.pc = "returned"
    /\ mood.outcome.kind = "returned"
    /\ LET analysis == mood.outcome.value
       IN  /\ analysis.primaryEmotion \in Emotions
           /\ DOMAIN analysis.emotions = Emotions
           /\ \A e \in Emotions : InUnitInterval(analysis.emotions[e])
           /\ InUnitInterval(analysis.confidence)
           /\ analysis.rawText = mood.text
           /\ mood.caught # Absent =>
                /\ \A e \in Emotions :
                     CompareNumbers(analysis.emotions[e],
                                    analysis.emotions[analysis.primaryEmotion]) <= 0
                /\ mood.text.words \cap AllKeywords = {} =>
                     /\ analysis.primaryEmotion = "calm"
                     /\ CompareNumbers(analysis.confidence, Number(3, 10)) = 0

\* A reply that fails validation for a text with a keyword of 'calm' and one
\* of 'nostalgic': the two tie for the highest score.
C20_Witness ==
  /\ mood # JsUndefined
  /\ mood.pc = "returned"
  /\ mood.caught = "Invalid emotion score"
  /\ mood.text.words = {"calm", "old", "rain"}
  /\ mood.outcome.value.primaryEmotion = "nostalgic"
  /\ CompareNumbers(mood.outcome.value.emotions.calm, mood.outcome.value.emotions.nostalgic) = 0

====
